---- MODULE Spec2Model ----
(***************************************************************************)
(* SraMetaGo (src/main.go): the concurrent batch fetch-retry-aggregate     *)
(* pipeline of main().  Three kinds of goroutine take steps:               *)
(*   - the controlling flow (main): the dispatch loop, wg.Wait, pb.Finish, *)
(*     close(results), the creation of the TSV file, the header, the drain;*)
(*   - one Fetch-Retry Worker per batch (the closure of lines 339-362);    *)
(*   - the Progress Reporter (the closure of lines 313-329).               *)
(* A step is one access to shared state (a channel operation, an atomic    *)
(* operation, a WaitGroup operation, a call of the progress bar) or one    *)
(* call that leaves the process (fetchBatch, os.Create).  A time.Sleep     *)
(* touches no state and is part of the step it precedes or follows.        *)
(* When main returns or log.Fatalf exits, the Go runtime ends the process  *)
(* and with it every goroutine still running.                              *)
(***************************************************************************)
EXTENDS Naturals, Sequences, FiniteSets

\* Largest number of batches of a run (len(batches), line 303).
MaxBatches == 2

\* Capacity of the slot pool.  The source sets 10 (line 24); the pipeline is
\* explored with a small pool, so that runs with more batches than slots, in
\* which the dispatch loop has to wait for a slot, are within reach.
maxWorkers == 1

\* const maxRetries = 7 (line 278).
maxRetries == 7

\* Longest identifier sequence and largest chunk size chunkIDs is applied to.
MaxIds == 4
MaxSize == 3

\* Longest list of identifiers or of attributes of a package, and largest
\* number of runs of a package, the serializer is applied to.
MaxEntries == 2
MaxRuns == 2

VARIABLES
    total,       \* int32(len(batches)), line 303
    completed,   \* var completed int32, line 309
    results,     \* buffer of the channel results (line 310): batches whose PackageSet is held
    closed,      \* whether close(results) has been executed
    sem,         \* number of tokens in the channel sem (line 333)
    wg,          \* counter of the WaitGroup (line 332)
    next,        \* index of the batch the dispatch loop is at (line 335)
    mainpc,      \* position of the controlling flow
    wpc,         \* position of each batch's worker
    attempt,     \* loop variable attempt of each worker (line 346); 0 once the loop is left
    err,         \* each worker's err (line 344): "unset", "nil" or "error"
    fetched,     \* calls of fetchBatch each worker's loop has made (line 354); 0 once the loop is left
    deposited,   \* number of sends on results each worker has made (line 356)
    slept,       \* seconds of each time.Sleep of each worker's loop, in order (line 349); <<>> once the loop is left
    rpc,         \* position of the Progress Reporter
    done,        \* the reporter's local done (line 316)
    last,        \* the reporter's local last (line 314)
    progress,    \* the values passed to pb.SetProgress, in order (line 320)
    pbFinished,  \* whether pb.Finish has been called (line 367)
    tsv,         \* what was written to the TSV file: <<"header">>, then <<"rows", b>> per drained PackageSet
    ids,         \* chunkIDs: the argument ids (line 217)
    size,        \* chunkIDs: the argument size (line 217)
    chunks,      \* chunkIDs: the value returned (line 222)
    pkg,         \* writePackage: the argument pkg (line 225)
    out,         \* serializer: the lines written to the TSV file (lines 376 and 262), in order
    fpc          \* serializer: its position

mainVars == <<next, mainpc, pbFinished, tsv>>
chanVars == <<results, closed, sem, wg, completed>>
workVars == <<wpc, attempt, err, fetched, deposited, slept>>
repVars  == <<rpc, done, last, progress>>
\* The arguments and results of the functions that are explored on their own.
funcVars == <<ids, size, chunks, pkg, out, fpc>>
pipeVars == <<total, mainVars, chanVars, workVars, repVars>>
vars == <<total, mainVars, chanVars, workVars, repVars, funcVars>>

Batches == 1 .. total

\* The process is alive until main returns (line 384) or log.Fatalf exits (line 373).
Running == mainpc \notin {"exit", "fatal"}

Init ==
    /\ total \in 1 .. MaxBatches
    /\ completed = 0
    /\ results = <<>>
    /\ closed = FALSE
    /\ sem = 0
    /\ wg = 0
    /\ next = 1
    /\ mainpc = "add"
    /\ wpc = [b \in 1 .. total |-> "idle"]
    /\ attempt = [b \in 1 .. total |-> 0]
    /\ err = [b \in 1 .. total |-> "unset"]
    /\ fetched = [b \in 1 .. total |-> 0]
    /\ deposited = [b \in 1 .. total |-> 0]
    /\ slept = [b \in 1 .. total |-> <<>>]
    /\ rpc = "load"
    /\ done = 0
    /\ last = 0
    /\ progress = <<>>
    /\ pbFinished = FALSE
    /\ tsv = <<>>
    /\ ids = <<>>
    /\ size = 0
    /\ chunks = <<>>
    /\ pkg = <<>>
    /\ out = <<>>
    /\ fpc = "none"

----------------------------------------------------------------------------
(* The controlling flow: the dispatch loop, lines 335-363.                 *)

\* wg.Add(1), line 336.
MainAdd ==
    /\ mainpc = "add"
    /\ wg' = wg + 1
    /\ mainpc' = "acquire"
    /\ UNCHANGED <<total, next, pbFinished, tsv, results, closed, sem, completed,
                   workVars, repVars>>

\* sem <- struct{}{} with no capacity check: the send never blocks.
MainAcquireUnbounded ==
    /\ mainpc = "acquire"
    /\ sem' = sem + 1
    /\ mainpc' = "spawn"
    /\ UNCHANGED <<total, next, pbFinished, tsv, results, closed, wg, completed,
                   workVars, repVars>>

\* sem <- struct{}{}, line 337: blocks while the channel holds maxWorkers tokens.
MainAcquire ==
    /\ mainpc = "acquire"
    /\ sem < maxWorkers
    /\ sem' = sem + 1
    /\ mainpc' = "spawn"
    /\ UNCHANGED <<total, next, pbFinished, tsv, results, closed, wg, completed,
                   workVars, repVars>>

\* go func(idList []string) {...}(batch), lines 339 and 362, and the loop's
\* step to the next batch; after the last batch the flow reaches wg.Wait.
MainSpawn ==
    /\ mainpc = "spawn"
    /\ wpc' = [wpc EXCEPT ![next] = "fetch"]
    /\ next' = next + 1
    /\ mainpc' = IF next + 1 <= total THEN "add" ELSE "wait"
    /\ UNCHANGED <<total, pbFinished, tsv, chanVars, attempt, err, fetched, slept,
                   deposited, repVars>>

----------------------------------------------------------------------------
(* The Fetch-Retry Worker of batch b, lines 339-362.                       *)

\* sleepDuration := time.Duration(math.Pow(2, float64(attempt))) * time.Second,
\* line 348, in seconds.
SleepSeconds(a) == 2 ^ a

\* The retry loop with the bound off by one: attempt <= maxRetries.
WorkerAttemptOneMore(b) ==
    /\ Running
    /\ wpc[b] = "fetch"
    /\ slept' = IF attempt[b] > 0
                THEN [slept EXCEPT ![b] = Append(@, SleepSeconds(attempt[b]))]
                ELSE slept
    /\ fetched' = [fetched EXCEPT ![b] = @ + 1]
    /\ \E ok \in BOOLEAN :
          IF ok
          THEN /\ err' = [err EXCEPT ![b] = "nil"]
               /\ wpc' = [wpc EXCEPT ![b] = "send"]
               /\ UNCHANGED attempt
          ELSE /\ err' = [err EXCEPT ![b] = "error"]
               /\ attempt' = [attempt EXCEPT ![b] = @ + 1]
               /\ wpc' = [wpc EXCEPT ![b] =
                             IF attempt[b] + 1 <= maxRetries THEN "fetch" ELSE "log"]
    /\ UNCHANGED <<total, mainVars, chanVars, deposited, repVars>>

\* The increment placed outside the test err == nil: every attempt counts.
WorkerAttemptCounted(b) ==
    /\ Running
    /\ wpc[b] = "fetch"
    /\ slept' = IF attempt[b] > 0
                THEN [slept EXCEPT ![b] = Append(@, SleepSeconds(attempt[b]))]
                ELSE slept
    /\ fetched' = [fetched EXCEPT ![b] = @ + 1]
    /\ \E ok \in BOOLEAN :
          IF ok
          THEN /\ err' = [err EXCEPT ![b] = "nil"]
               /\ wpc' = [wpc EXCEPT ![b] = "send"]
               /\ UNCHANGED <<attempt, completed>>
          ELSE /\ err' = [err EXCEPT ![b] = "error"]
               /\ attempt' = [attempt EXCEPT ![b] = @ + 1]
               /\ completed' = completed + 1
               /\ wpc' = [wpc EXCEPT ![b] =
                             IF attempt[b] + 1 < maxRetries THEN "fetch" ELSE "log"]
    /\ UNCHANGED <<total, mainVars, results, closed, sem, wg, deposited, repVars>>

\* The backoff with the arguments of math.Pow swapped: attempt squared.
WorkerAttemptSquared(b) ==
    /\ Running
    /\ wpc[b] = "fetch"
    /\ slept' = IF attempt[b] > 0
                THEN [slept EXCEPT ![b] = Append(@, attempt[b] ^ 2)]
                ELSE slept
    /\ fetched' = [fetched EXCEPT ![b] = @ + 1]
    /\ \E ok \in BOOLEAN :
          IF ok
          THEN /\ err' = [err EXCEPT ![b] = "nil"]
               /\ wpc' = [wpc EXCEPT ![b] = "send"]
               /\ UNCHANGED attempt
          ELSE /\ err' = [err EXCEPT ![b] = "error"]
               /\ attempt' = [attempt EXCEPT ![b] = @ + 1]
               /\ wpc' = [wpc EXCEPT ![b] =
                             IF attempt[b] + 1 < maxRetries THEN "fetch" ELSE "log"]
    /\ UNCHANGED <<total, mainVars, chanVars, deposited, repVars>>

\* One iteration of the retry loop, lines 346-360: the backoff sleep when
\* attempt > 0 (lines 347-353), then pkgSet, err = fetchBatch(idList), line 354.
\* err == nil leads to the deposit.  An error ends the iteration (attempt++):
\* the loop goes on while attempt < maxRetries, else it ends and line 361 is next.
WorkerAttempt(b) ==
    /\ Running
    /\ wpc[b] = "fetch"
    /\ slept' = IF attempt[b] > 0
                THEN [slept EXCEPT ![b] = Append(@, SleepSeconds(attempt[b]))]
                ELSE slept
    /\ fetched' = [fetched EXCEPT ![b] = @ + 1]
    /\ \E ok \in BOOLEAN :
          IF ok
          THEN /\ err' = [err EXCEPT ![b] = "nil"]
               /\ wpc' = [wpc EXCEPT ![b] = "send"]
               /\ UNCHANGED attempt
          ELSE /\ err' = [err EXCEPT ![b] = "error"]
               /\ attempt' = [attempt EXCEPT ![b] = @ + 1]
               /\ wpc' = [wpc EXCEPT ![b] =
                             IF attempt[b] + 1 < maxRetries THEN "fetch" ELSE "log"]
    /\ UNCHANGED <<total, mainVars, chanVars, deposited, repVars>>

\* The deposit as a send that gives up at once (a select with a default case):
\* nothing is deposited.
WorkerSendSkipped(b) ==
    /\ Running
    /\ wpc[b] = "send"
    /\ wpc' = [wpc EXCEPT ![b] = "incr"]
    /\ UNCHANGED <<total, mainVars, chanVars, attempt, err, fetched, slept, deposited,
                   repVars>>

\* results <- pkgSet, line 356: blocks while the buffer holds len(batches) entries.
WorkerSend(b) ==
    /\ Running
    /\ wpc[b] = "send"
    /\ Len(results) < total
    /\ results' = Append(results, b)
    /\ deposited' = [deposited EXCEPT ![b] = @ + 1]
    /\ wpc' = [wpc EXCEPT ![b] = "incr"]
    /\ UNCHANGED <<total, mainVars, closed, sem, wg, completed, attempt, err,
                   fetched, slept, repVars>>

\* The increment without the return of line 358: the loop goes on.
WorkerIncrNoReturn(b) ==
    /\ Running
    /\ wpc[b] = "incr"
    /\ completed' = completed + 1
    /\ attempt' = [attempt EXCEPT ![b] = @ + 1]
    /\ wpc' = [wpc EXCEPT ![b] =
                  IF attempt[b] + 1 < maxRetries THEN "fetch" ELSE "log"]
    /\ UNCHANGED <<total, mainVars, results, closed, sem, wg, err, fetched, slept,
                   deposited, repVars>>

\* atomic.AddInt32(&completed, 1); return, lines 357-358.  The return ends the
\* loop and the function: the loop's variable is gone, the deferred calls run.
WorkerIncr(b) ==
    /\ Running
    /\ wpc[b] = "incr"
    /\ completed' = completed + 1
    /\ attempt' = [attempt EXCEPT ![b] = 0]
    /\ fetched' = [fetched EXCEPT ![b] = 0]
    /\ slept' = [slept EXCEPT ![b] = <<>>]
    /\ wpc' = [wpc EXCEPT ![b] = "release"]
    /\ UNCHANGED <<total, mainVars, results, closed, sem, wg, err, deposited, repVars>>

\* fmt.Fprintf(os.Stderr, "Failed batch after retries: ..."), line 361, after
\* the loop has run out of attempts; the function ends, the deferred calls run.
WorkerGiveUp(b) ==
    /\ Running
    /\ wpc[b] = "log"
    /\ attempt' = [attempt EXCEPT ![b] = 0]
    /\ fetched' = [fetched EXCEPT ![b] = 0]
    /\ slept' = [slept EXCEPT ![b] = <<>>]
    /\ wpc' = [wpc EXCEPT ![b] = "release"]
    /\ UNCHANGED <<total, mainVars, chanVars, err, deposited, repVars>>

\* The worker ending without taking its token back from sem.
WorkerReleaseLeak(b) ==
    /\ Running
    /\ wpc[b] = "release"
    /\ wpc' = [wpc EXCEPT ![b] = "wgdone"]
    /\ UNCHANGED <<total, mainVars, chanVars, attempt, err, fetched, slept, deposited, repVars>>

\* defer func() { <-sem }(), line 341: the deferred call that runs first.
WorkerRelease(b) ==
    /\ Running
    /\ wpc[b] = "release"
    /\ sem > 0
    /\ sem' = sem - 1
    /\ wpc' = [wpc EXCEPT ![b] = "wgdone"]
    /\ UNCHANGED <<total, mainVars, results, closed, wg, completed, attempt, err,
                   fetched, slept, deposited, repVars>>

\* defer wg.Done(), line 340: the deferred call that runs last.
WorkerDone(b) ==
    /\ Running
    /\ wpc[b] = "wgdone"
    /\ wg' = wg - 1
    /\ wpc' = [wpc EXCEPT ![b] = "finished"]
    /\ UNCHANGED <<total, mainVars, results, closed, sem, completed, attempt, err,
                   fetched, slept, deposited, repVars>>

Worker(b) ==
    \/ WorkerAttempt(b)
    \/ WorkerSend(b)
    \/ WorkerIncr(b)
    \/ WorkerGiveUp(b)
    \/ WorkerRelease(b)
    \/ WorkerDone(b)

----------------------------------------------------------------------------
(* The controlling flow after the dispatch loop, lines 365-384.            *)

\* wg.Wait() returning at once, whatever the counter.
MainWaitNoJoin ==
    /\ mainpc = "wait"
    /\ mainpc' = "finish"
    /\ UNCHANGED <<total, next, pbFinished, tsv, chanVars, workVars, repVars>>

\* wg.Wait(), line 365: returns when the counter is zero.
MainWait ==
    /\ mainpc = "wait"
    /\ wg = 0
    /\ mainpc' = "finish"
    /\ UNCHANGED <<total, next, pbFinished, tsv, chanVars, workVars, repVars>>

\* pb.Finish(), line 367.
MainFinish ==
    /\ mainpc = "finish"
    /\ pbFinished' = TRUE
    /\ mainpc' = "close"
    /\ UNCHANGED <<total, next, tsv, chanVars, workVars, repVars>>

\* close(results), line 369.
MainClose ==
    /\ mainpc = "close"
    /\ closed' = TRUE
    /\ mainpc' = "create"
    /\ UNCHANGED <<total, next, pbFinished, tsv, results, sem, wg, completed,
                   workVars, repVars>>

\* tsv, err := os.Create(tsvFile), lines 371-374: on an error log.Fatalf ends
\* the process.
MainCreate ==
    /\ mainpc = "create"
    /\ \E created \in BOOLEAN : mainpc' = IF created THEN "header" ELSE "fatal"
    /\ UNCHANGED <<total, next, pbFinished, tsv, chanVars, workVars, repVars>>

\* tsv.WriteString("RunAccession\t..."), line 376.
MainHeader ==
    /\ mainpc = "header"
    /\ tsv' = Append(tsv, <<"header">>)
    /\ mainpc' = "drain"
    /\ UNCHANGED <<total, next, pbFinished, chanVars, workVars, repVars>>

\* One iteration of for pkgSet := range results, lines 378-382: a PackageSet
\* is received and its packages' rows are written.
MainDrain ==
    /\ mainpc = "drain"
    /\ results # <<>>
    /\ tsv' = Append(tsv, <<"rows", Head(results)>>)
    /\ results' = Tail(results)
    /\ UNCHANGED <<total, next, mainpc, pbFinished, closed, sem, wg, completed,
                   workVars, repVars>>

\* The range loop ends on the closed, empty channel; line 383 and main returns.
MainReturn ==
    /\ mainpc = "drain"
    /\ results = <<>>
    /\ closed
    /\ mainpc' = "exit"
    /\ UNCHANGED <<total, next, pbFinished, tsv, chanVars, workVars, repVars>>

Main ==
    \/ MainAdd
    \/ MainAcquire
    \/ MainSpawn
    \/ MainWait
    \/ MainFinish
    \/ MainClose
    \/ MainCreate
    \/ MainHeader
    \/ MainDrain
    \/ MainReturn

----------------------------------------------------------------------------
(* The Progress Reporter, lines 313-329.                                   *)

\* done := atomic.LoadInt32(&completed), line 316.
ReporterLoad ==
    /\ Running
    /\ rpc = "load"
    /\ done' = completed
    /\ rpc' = "update"
    /\ UNCHANGED <<total, mainVars, chanVars, workVars, last, progress>>

\* The update with the test done >= last in place of done > last.
ReporterUpdateRedundant ==
    /\ Running
    /\ rpc = "update"
    /\ IF done >= last
       THEN /\ progress' = Append(progress, done)
            /\ last' = done
       ELSE UNCHANGED <<progress, last>>
    /\ rpc' = IF done >= total THEN "exited" ELSE "load"
    /\ UNCHANGED <<total, mainVars, chanVars, workVars, done>>

\* Lines 319-327: pb.SetProgress(int(done)) and last = done when done > last;
\* then break when done >= total, else time.Sleep(50ms) and the next iteration.
ReporterUpdate ==
    /\ Running
    /\ rpc = "update"
    /\ IF done > last
       THEN /\ progress' = Append(progress, done)
            /\ last' = done
       ELSE UNCHANGED <<progress, last>>
    /\ rpc' = IF done >= total THEN "exited" ELSE "load"
    /\ UNCHANGED <<total, mainVars, chanVars, workVars, done>>

Reporter ==
    \/ ReporterLoad
    \/ ReporterUpdate

----------------------------------------------------------------------------

Next ==
    \/ Main /\ UNCHANGED funcVars
    \/ \E b \in Batches : Worker(b) /\ UNCHANGED funcVars
    \/ Reporter /\ UNCHANGED funcVars

Spec == Init /\ [][Next]_vars

\* Go's scheduler is preemptive: a goroutine that can take a step eventually
\* takes one; every fetch attempt eventually returns.
FairSpec ==
    /\ Spec
    /\ WF_vars(Main /\ UNCHANGED funcVars)
    /\ \A b \in 1 .. MaxBatches :
          WF_vars(b \in Batches /\ Worker(b) /\ UNCHANGED funcVars)
    /\ WF_vars(Reporter /\ UNCHANGED funcVars)

----------------------------------------------------------------------------
(* Observations of a run.                                                  *)

\* The worker of b has run its last deferred call (wg.Done, line 340).
Terminated(b) == wpc[b] = "finished"

AllTerminated == \A b \in Batches : Terminated(b)

\* b's fetch returned without an error (line 355).
Succeeded(b) == err[b] = "nil"

\* b's loop ran out of attempts: the worker is at line 361 or past it.
Dropped(b) == err[b] = "error" /\ wpc[b] \in {"log", "release", "wgdone", "finished"}

\* Workers started by line 339 that have not yet given their slot back (line 341).
InFlight == {b \in Batches : wpc[b] \in {"fetch", "send", "incr", "log", "release"}}

\* The batches whose rows are in the TSV file.
Drained == {tsv[i][2] : i \in {j \in 1 .. Len(tsv) : tsv[j][1] = "rows"}}

NumRowGroups == Cardinality({j \in 1 .. Len(tsv) : tsv[j][1] = "rows"})

\* Number of sends on results made so far by the workers of batches 1 .. n.
RECURSIVE DepositsUpTo(_)
DepositsUpTo(n) == IF n = 0 THEN 0 ELSE deposited[n] + DepositsUpTo(n - 1)

\* Workers created by the go statement of line 339 whose function has not
\* yet ended all its deferred calls.
Created == {b \in Batches : wpc[b] \notin {"idle", "finished"}}

----------------------------------------------------------------------------
\* C1: in every reachable state the number of workers in flight (started and
\* not yet done with their slot) is at most maxWorkers.
ConcurrencyBound == Cardinality(InFlight) <= maxWorkers

\* The pool is full and the dispatch loop waits for a slot for one more batch.
ConcurrencyBoundWitness ==
    /\ Cardinality(InFlight) = maxWorkers
    /\ mainpc = "acquire"
    /\ sem = maxWorkers

\* C2: completed is incremented once per batch whatever the outcome, so once
\* every worker has terminated it equals the number of batches.
CompletedCountsEveryBatch == AllTerminated => completed = total

\* What holds of each batch's retries in every state.
RetrySafety ==
    \A b \in Batches :
        /\ fetched[b] <= maxRetries
        /\ wpc[b] = "log" => fetched[b] = maxRetries /\ err[b] = "error"
        /\ Dropped(b) => deposited[b] = 0 /\ b \notin Drained
        /\ mainpc = "exit" /\ Succeeded(b) => b \in Drained

\* A worker leaves its loop either with a result to deposit or, after
\* maxRetries fetches, for line 361.
RetryExit ==
    \A b \in Batches :
        (wpc[b] = "fetch" /\ wpc'[b] # "fetch") =>
            \/ wpc'[b] = "send" /\ err'[b] = "nil"
            \/ wpc'[b] = "log" /\ fetched'[b] = maxRetries

\* C3: a batch whose every fetch fails is fetched exactly maxRetries times and
\* then dropped with nothing deposited; the run still ends, and a run that
\* drains its results has the PackageSet of every batch that succeeded.
RetryTermination == []RetrySafety /\ [][RetryExit]_vars /\ <>(~Running)

\* A run that ended with one batch dropped and another one's rows written.
RetryTerminationWitness ==
    /\ mainpc = "exit"
    /\ \E b \in Batches : Dropped(b)
    /\ \E b \in Batches : Succeeded(b) /\ b \in Drained

\* C4: once every batch is terminal the Progress Reporter eventually reads
\* completed = total and terminates.  completed changes no more once every
\* worker has terminated, so a reporter that has then read its current value
\* must have read total.
ReporterObservesTotal ==
    (AllTerminated /\ rpc = "update" /\ done = completed) => done >= total

\* C5: the values passed to pb.SetProgress end at the number of batches, and
\* that last value has been passed when pb.Finish is called.
FinalProgressBeforeFinish ==
    pbFinished => progress # <<>> /\ progress[Len(progress)] = total

\* C6: under fair scheduling every batch reaches a terminal state, the join
\* returns, and the dispatch loop waiting for a slot always gets one.
PipelineTerminates ==
    /\ <>AllTerminated
    /\ <>(mainpc = "finish")
    /\ (mainpc = "acquire") ~> (mainpc = "spawn")

\* The join has just returned in a run with more batches than slots, one of
\* them dropped.
PipelineTerminatesWitness ==
    /\ mainpc = "finish"
    /\ total > maxWorkers
    /\ \E b \in Batches : Dropped(b)

\* C7: completed is always between 0 and the number of batches and no step
\* decreases it.
CompletedBoundedMonotone ==
    /\ [](completed \in 0 .. total)
    /\ [][completed' >= completed]_vars

\* Every batch has been counted, in a run of several batches.
CompletedBoundedMonotoneWitness == completed = total /\ total > 1

\* The values passed so far are strictly increasing, each in 1 .. total, and
\* last is the last of them (0 when there is none).
ForwardedIncreasing ==
    /\ \A i \in 1 .. Len(progress) : progress[i] \in 1 .. total
    /\ \A i, j \in 1 .. Len(progress) : i < j => progress[i] < progress[j]
    /\ last = IF progress = <<>> THEN 0 ELSE progress[Len(progress)]

\* A step passes a value only if it is the value just read and exceeds last.
ForwardOnlyOnIncrease ==
    progress' # progress =>
        /\ rpc = "update"
        /\ done > last
        /\ progress' = Append(progress, done)

\* C8: the reporter passes a value to the display only when the value it has
\* just read is greater than the last one it passed (0 at first): the values
\* passed are strictly increasing, none twice, and each lies in 1 .. total.
ProgressForwarding == []ForwardedIncreasing /\ [][ForwardOnlyOnIncrease]_vars

\* The reporter has passed a value, read completed again and passed a greater
\* one, the number of batches, and has left its loop.
ProgressForwardingWitness ==
    /\ Len(progress) >= 2
    /\ last = total
    /\ rpc = "exited"

\* C9: a batch deposits at most one PackageSet, a dropped batch none, and the
\* number of PackageSets drained is the number of batches that succeeded.
DepositPerSuccess ==
    /\ \A b \in Batches : deposited[b] <= 1
    /\ \A b \in Batches : Dropped(b) => deposited[b] = 0
    /\ mainpc = "exit" =>
          /\ NumRowGroups = Cardinality({b \in Batches : Succeeded(b)})
          /\ NumRowGroups <= total

\* A drained run in which some batch was dropped and some batch succeeded.
DepositPerSuccessWitness ==
    /\ mainpc = "exit"
    /\ NumRowGroups >= 1
    /\ NumRowGroups < total

\* C10: results is closed only after every worker has terminated, so no worker
\* is at its deposit once it is closed, and the drain and the writing of the
\* file start only after the close.
CloseAfterJoin ==
    /\ closed => AllTerminated
    /\ \A b \in Batches : wpc[b] = "send" => ~closed
    /\ mainpc \in {"header", "drain", "exit"} => closed
    /\ tsv # <<>> => closed

\* The channel is closed and a PackageSet's rows have been written.
CloseAfterJoinWitness == closed /\ NumRowGroups >= 1

\* C11: a worker's deposit never blocks: whenever a worker is about to send
\* on results, the buffer holds fewer entries than its capacity (one per
\* batch), although nothing is received before every worker has finished.
DepositNeverBlocks ==
    \A b \in Batches : wpc[b] = "send" => Len(results) < total /\ tsv = <<>>

\* A worker is about to deposit the last entry the buffer has room for.
DepositNeverBlocksWitness ==
    /\ total > 1
    /\ \E b \in Batches : wpc[b] = "send" /\ Len(results) = total - 1

\* C17 as claimed: in every state the number of held slots is the number of
\* started workers that have not finished, and none is held when the join
\* has returned.
SlotsEqualWorkers ==
    /\ sem = Cardinality(InFlight)
    /\ mainpc = "finish" => sem = 0

\* The slots held are those of the workers in flight and, between lines 337
\* and 339, the one the dispatch loop has taken for the worker it starts next.
SlotAccounting ==
    /\ sem = Cardinality(InFlight) + (IF mainpc = "spawn" THEN 1 ELSE 0)
    /\ mainpc \notin {"add", "acquire", "spawn", "wait"} => sem = 0

\* A worker gives its slot back in one step, on its way out, and does not come
\* back to hold one.
ReleaseOnce ==
    \A b \in Batches :
        /\ (wpc[b] = "release" /\ wpc'[b] # "release") =>
               wpc'[b] = "wgdone" /\ sem' = sem - 1
        /\ wpc[b] \in {"wgdone", "finished"} => wpc'[b] \in {"wgdone", "finished"}

\* C17 (amended): every started worker holds one slot until it ends and gives
\* it back exactly once, after a success and after its last failure alike; the
\* slot is taken by the dispatch loop before the worker is started, so the
\* held slots are the workers in flight plus, while the loop holds a slot for
\* a worker not yet started, one; when the join returns none is held.
SlotPerWorker == []SlotAccounting /\ [][ReleaseOnce]_vars

\* The join has returned after one worker succeeded and one was dropped.
SlotPerWorkerWitness ==
    /\ mainpc = "finish"
    /\ sem = 0
    /\ \E b \in Batches : Dropped(b)
    /\ \E b \in Batches : Succeeded(b)

\* C18 as claimed: the wait after the failed attempt with 0-indexed number a
\* is 2^a seconds, so the first wait is 1 second.
WaitAfterFailedAttempt ==
    \A b \in Batches : \A i \in 1 .. Len(slept[b]) : slept[b][i] = 2 ^ (i - 1)

\* C18 (amended): the wait before the attempt with 0-indexed number a
\* (1 <= a <= maxRetries - 1) is 2^a seconds: the first retry follows a wait of
\* 2 seconds, each later wait is double the one before, and no wait precedes
\* the first attempt.
WaitBeforeAttempt ==
    \A b \in Batches :
        /\ \A i \in 1 .. Len(slept[b]) : slept[b][i] = 2 ^ i
        /\ \A i \in 2 .. Len(slept[b]) : slept[b][i] = 2 * slept[b][i - 1]
        /\ Len(slept[b]) = IF fetched[b] = 0 THEN 0 ELSE fetched[b] - 1
        /\ Len(slept[b]) <= maxRetries - 1

\* A worker has made its last attempt: it has slept 2, 4, 8, 16, 32 and 64 s.
WaitBeforeAttemptWitness ==
    \E b \in Batches : Len(slept[b]) = maxRetries - 1 /\ slept[b][1] = 2

\* C19 as claimed: the creation of a batch's worker never waits for a slot.
CreationNeverWaits == mainpc = "acquire" => sem < maxWorkers

\* The workers created so far are those of the batches before the one the
\* dispatch loop is at.
CreatedInOrder ==
    /\ \A b \in Batches : wpc[b] # "idle" <=> b < next
    /\ (mainpc = "acquire" /\ sem = maxWorkers) => Created # {} /\ wpc[next] = "idle"

\* A worker is created by the dispatch loop, once the loop holds a slot for it.
CreatedWithSlot ==
    \A b \in Batches :
        (wpc[b] = "idle" /\ wpc'[b] # "idle") =>
            /\ mainpc = "spawn"
            /\ b = next
            /\ Cardinality(InFlight) < maxWorkers
            /\ sem = Cardinality(InFlight) + 1

\* C19 (amended): the dispatch loop takes a slot before it creates each
\* batch's worker, so the creation of a worker waits while maxWorkers slots
\* are held; the workers are created one by one in batch order, and a created
\* worker never waits for a slot.
CreationAfterSlot == []CreatedInOrder /\ [][CreatedWithSlot]_vars

\* The pool is full, a worker is fetching and the next batch has no worker yet.
CreationAfterSlotWitness ==
    /\ mainpc = "acquire"
    /\ sem = maxWorkers
    /\ wpc[next] = "idle"
    /\ \E b \in Batches : wpc[b] = "fetch" /\ fetched[b] > 0

\* C20: a worker deposits before it increments completed, so completed is at
\* most the number of deposits made so far, and until the drain the buffer
\* holds at least as many entries as completed, or as a reader has read of it.
DepositBeforeCount ==
    /\ completed <= DepositsUpTo(total)
    /\ done <= DepositsUpTo(total)
    /\ tsv = <<>> => completed <= Len(results) /\ done <= Len(results)

\* A worker has deposited and not yet incremented: one more entry than counted.
DepositBeforeCountWitness ==
    /\ \E b \in Batches : wpc[b] = "incr"
    /\ Len(results) = completed + 1
    /\ completed >= 1

----------------------------------------------------------------------------
(* chunkIDs, lines 217-223, explored on its own: no goroutine runs.        *)

\* The state of the pipeline's variables before main has set any of them.
NoPipeline ==
    /\ total = 0
    /\ completed = 0
    /\ results = <<>>
    /\ closed = FALSE
    /\ sem = 0
    /\ wg = 0
    /\ next = 1
    /\ mainpc = "none"
    /\ wpc = <<>>
    /\ attempt = <<>>
    /\ err = <<>>
    /\ fetched = <<>>
    /\ deposited = <<>>
    /\ slept = <<>>
    /\ rpc = "none"
    /\ done = 0
    /\ last = 0
    /\ progress = <<>>
    /\ pbFinished = FALSE
    /\ tsv = <<>>

\* The identifiers a query returns.
IdSet == {"id1", "id2"}

\* The sequences over S of length at most n.
RECURSIVE SeqsUpTo(_, _)
SeqsUpTo(S, n) ==
    IF n = 0 THEN {<<>>}
    ELSE LET shorter == SeqsUpTo(S, n - 1)
         IN  shorter \cup {Append(q, x) : q \in shorter, x \in S}

\* ids[a:b] of Go, for 0 <= a <= b <= len(ids).
Slice(q, a, b) == SubSeq(q, a + 1, b)

\* The loop with the test size <= len(ids).
RECURSIVE chunkLoopInclusive(_, _, _)
chunkLoopInclusive(rest, sz, acc) ==
    IF sz <= Len(rest)
    THEN chunkLoopInclusive(Slice(rest, sz, Len(rest)), sz, Append(acc, Slice(rest, 0, sz)))
    ELSE Append(acc, rest)

\* chunkIDs with that loop.
chunkIDsInclusive(idList, sz) == chunkLoopInclusive(idList, sz, <<>>)

\* The loop of lines 219-221 and the return of line 222: while size < len(ids),
\* ids, chunks = ids[size:], append(chunks, ids[0:size]); then append(chunks, ids).
RECURSIVE chunkLoop(_, _, _)
chunkLoop(rest, sz, acc) ==
    IF sz < Len(rest)
    THEN chunkLoop(Slice(rest, sz, Len(rest)), sz, Append(acc, Slice(rest, 0, sz)))
    ELSE Append(acc, rest)

\* func chunkIDs(ids []string, size int) [][]string, lines 217-223.
chunkIDs(idList, sz) == chunkLoop(idList, sz, <<>>)

ChunkInit ==
    /\ NoPipeline
    /\ ids \in SeqsUpTo(IdSet, MaxIds)
    /\ size \in 1 .. MaxSize
    /\ chunks = <<>>
    /\ pkg = <<>>
    /\ out = <<>>
    /\ fpc = "none"

\* The call chunkIDs(ids, size); what it returns is never empty.
ChunkCall ==
    /\ chunks = <<>>
    /\ chunks' = chunkIDs(ids, size)
    /\ UNCHANGED <<pipeVars, ids, size, pkg, out, fpc>>

ChunkNext == ChunkCall

ChunkSpec == ChunkInit /\ [][ChunkNext]_vars

\* The call has returned.
Chunked == chunks # <<>>

\* The concatenation of the sequences of a sequence, in order.
RECURSIVE Concat(_)
Concat(qs) == IF qs = <<>> THEN <<>> ELSE Head(qs) \o Concat(Tail(qs))

\* The least integer not below n / s.
CeilDiv(n, s) == (n + s - 1) \div s

\* What C12 says of the batches besides their number.
ChunkShape ==
    /\ Concat(chunks) = ids
    /\ \A i \in 1 .. Len(chunks) : Len(chunks[i]) <= size
    /\ \A i \in 1 .. Len(chunks) - 1 : Len(chunks[i]) = size

\* C12 as claimed: for every N, N = 0 included, there are ceil(N / S) batches.
ChunkCountCeil == Chunked => Len(chunks) = CeilDiv(Len(ids), size) /\ ChunkShape

\* C12 (amended): for N >= 1 there are ceil(N / S) batches, for N = 0 there is
\* one, empty, batch; the batches in order concatenate to the input, none is
\* longer than S and every batch but the last has length S.
ChunkingComplete ==
    Chunked =>
        /\ Len(chunks) = IF Len(ids) = 0 THEN 1 ELSE CeilDiv(Len(ids), size)
        /\ Len(ids) = 0 => chunks = << <<>> >>
        /\ ChunkShape

\* Several batches were returned, the last one shorter than the others.
ChunkingCompleteWitness ==
    /\ Chunked
    /\ Len(chunks) >= 2
    /\ size >= 2
    /\ Len(chunks[Len(chunks)]) < size

----------------------------------------------------------------------------
(* The serializer: Experiment.UnmarshalXML (lines 85-101), the header      *)
(* (line 376) and writePackage (lines 225-274), explored on one package.   *)
(* A Go string is the sequence of its tokens: a token is a tab, a newline, *)
(* a space or a run of other characters.  Names that the code compares     *)
(* (namespaces, tags) are single tokens.                                   *)

Tab == "\t"
Newline == "\n"
Space == " "

\* strings.TrimSpace: the string without its leading and trailing white space.
RECURSIVE TrimLeft(_)
TrimLeft(str) == IF str # <<>> /\ Head(str) = Space THEN TrimLeft(Tail(str)) ELSE str

RECURSIVE TrimRight(_)
TrimRight(str) ==
    IF str # <<>> /\ str[Len(str)] = Space
    THEN TrimRight(SubSeq(str, 1, Len(str) - 1))
    ELSE str

TrimSpace(str) == TrimRight(TrimLeft(str))

\* The lower-case form of a tag, over the tags that occur.
ToLower(tag) ==
    CASE tag = "BioProject" -> "bioproject"
      [] tag = "SUBMITTER" -> "submitter"
      [] tag = "Center_Name" -> "center_name"
      [] OTHER -> tag

\* strings.EqualFold: equality of the two names under case folding.
EqualFold(a, b) == ToLower(a) = ToLower(b)

\* The loop of lines 94-99: the first external identifier of the study whose
\* namespace is "BioProject" sets BioProject to its trimmed value and ends the
\* loop; without one BioProject keeps its value.
RECURSIVE scanExternalIDs(_, _)
scanExternalIDs(exts, cur) ==
    IF exts = <<>> THEN cur
    ELSE IF Head(exts).Namespace = "BioProject"
         THEN TrimSpace(Head(exts).Value)
         ELSE scanExternalIDs(Tail(exts), cur)

\* func (e *Experiment) UnmarshalXML, lines 85-101.
UnmarshalXML(e) == [e EXCEPT !.BioProject = scanExternalIDs(e.Study.ExternalIDs, @)]

\* func extractSampleValue(attrs, key), lines 158-165.
RECURSIVE extractSampleValue(_, _)
extractSampleValue(attrs, key) ==
    IF attrs = <<>> THEN <<>>
    ELSE IF EqualFold(Head(attrs).Tag, key)
         THEN Head(attrs).Value
         ELSE extractSampleValue(Tail(attrs), key)

\* func extractIdentifier(ids, ns), lines 168-175.
RECURSIVE extractIdentifier(_, _)
extractIdentifier(idents, ns) ==
    IF idents = <<>> THEN <<>>
    ELSE IF Head(idents).Namespace = ns
         THEN Head(idents).Value
         ELSE extractIdentifier(Tail(idents), ns)

\* biosample of line 229.
biosample(p) == extractIdentifier(p.Sample.Identifiers, "BioSample")

\* bioproject with the sample's identifier consulted before the experiment's.
bioprojectSampleFirst(p) ==
    IF extractIdentifier(p.Sample.Identifiers, "BioProject") # <<>>
    THEN extractIdentifier(p.Sample.Identifiers, "BioProject")
    ELSE IF p.Experiment.BioProject # <<>>
         THEN p.Experiment.BioProject
         ELSE extractSampleValue(p.Sample.Attributes, "bioproject")

\* bioproject of lines 230-236.
bioproject(p) ==
    IF p.Experiment.BioProject # <<>>
    THEN p.Experiment.BioProject
    ELSE IF extractIdentifier(p.Sample.Identifiers, "BioProject") # <<>>
         THEN extractIdentifier(p.Sample.Identifiers, "BioProject")
         ELSE extractSampleValue(p.Sample.Attributes, "bioproject")

\* collDate, geoLoc and pop of lines 238-240.
collDate(p) == extractSampleValue(p.Sample.Attributes, "collection_date")
geoLoc(p) == extractSampleValue(p.Sample.Attributes, "geo_loc_name")
pop(p) == extractSampleValue(p.Sample.Attributes, "ww_population")

\* submitter with the attribute submitted_by consulted before submitter.
submitterByFirst(p) ==
    IF p.Organization.Name # <<>>
    THEN p.Organization.Name
    ELSE IF extractSampleValue(p.Sample.Attributes, "submitted_by") # <<>>
         THEN extractSampleValue(p.Sample.Attributes, "submitted_by")
         ELSE IF extractSampleValue(p.Sample.Attributes, "submitter") # <<>>
              THEN extractSampleValue(p.Sample.Attributes, "submitter")
              ELSE extractSampleValue(p.Sample.Attributes, "center_name")

\* submitter of lines 242-251.
submitter(p) ==
    IF p.Organization.Name # <<>>
    THEN p.Organization.Name
    ELSE IF extractSampleValue(p.Sample.Attributes, "submitter") # <<>>
         THEN extractSampleValue(p.Sample.Attributes, "submitter")
         ELSE IF extractSampleValue(p.Sample.Attributes, "submitted_by") # <<>>
              THEN extractSampleValue(p.Sample.Attributes, "submitted_by")
              ELSE extractSampleValue(p.Sample.Attributes, "center_name")

\* releaseDate and loadDate of lines 254-261.
releaseDate(p, run) == IF run.ReleaseDate = <<>> THEN p.ReleaseDate ELSE run.ReleaseDate
loadDate(p, run) == IF run.LoadDate = <<>> THEN p.LoadDate ELSE run.LoadDate

\* The line with one more tab before the newline.
SprintfPadded(p, run) ==
    run.Accession \o <<Tab>> \o bioproject(p) \o <<Tab>> \o biosample(p) \o <<Tab>>
        \o submitter(p) \o <<Tab>> \o collDate(p) \o <<Tab>> \o geoLoc(p) \o <<Tab>>
        \o pop(p) \o <<Tab>> \o run.TotalSpots \o <<Tab>> \o releaseDate(p, run) \o <<Tab>>
        \o loadDate(p, run) \o <<Tab>> \o <<Newline>>

\* The fmt.Sprintf of lines 262-272: ten values, a tab between two of them, a
\* newline at the end.
Sprintf(p, run) ==
    run.Accession \o <<Tab>> \o bioproject(p) \o <<Tab>> \o biosample(p) \o <<Tab>>
        \o submitter(p) \o <<Tab>> \o collDate(p) \o <<Tab>> \o geoLoc(p) \o <<Tab>>
        \o pop(p) \o <<Tab>> \o run.TotalSpots \o <<Tab>> \o releaseDate(p, run) \o <<Tab>>
        \o loadDate(p, run) \o <<Newline>>

\* The loop of lines 253-273: one WriteString per run, in the order of the runs.
RECURSIVE writeRuns(_, _, _)
writeRuns(p, runs, written) ==
    IF runs = <<>> THEN written
    ELSE writeRuns(p, Tail(runs), Append(written, Sprintf(p, Head(runs))))

\* writePackage that writes no line for a run without total_spots.
RECURSIVE writeRunsWithSpots(_, _, _)
writeRunsWithSpots(p, runs, written) ==
    IF runs = <<>> THEN written
    ELSE writeRunsWithSpots(p, Tail(runs),
             IF Head(runs).TotalSpots = <<>> THEN written
             ELSE Append(written, Sprintf(p, Head(runs))))

writePackageWithSpots(p, file) == writeRunsWithSpots(p, p.RunSet.Runs, file)

\* func writePackage(pkg, tsv), lines 225-274: the file after the call.
writePackage(p, file) == writeRuns(p, p.RunSet.Runs, file)

\* The header of line 376.
HeaderLine ==
    <<"RunAccession", Tab, "BioProject", Tab, "BioSample", Tab, "Submitter", Tab,
      "CollectionDate", Tab, "Location", Tab, "Population", Tab, "TotalSpots", Tab,
      "ReleaseDate", Tab, "LoadDate", Newline>>

\* An ExperimentPackage (lines 49-57) as the decoder fills it before
\* Experiment.UnmarshalXML has scanned the study's identifiers.
Package(study, idents, attrs, org, runs, rel, load) ==
    [Experiment |-> [Study |-> [ExternalIDs |-> study], BioProject |-> <<>>],
     Sample |-> [Identifiers |-> idents, Attributes |-> attrs],
     RunSet |-> [Runs |-> runs],
     Organization |-> [Name |-> org],
     ReleaseDate |-> rel,
     LoadDate |-> load]

\* A Run (lines 135-142).
Run(acc, spots, rel, load) ==
    [Accession |-> acc, TotalSpots |-> spots, ReleaseDate |-> rel, LoadDate |-> load]

\* The external identifiers of a study, the identifiers and the attributes
\* of a sample that occur.
StudyEntries ==
    {[Namespace |-> "BioProject", Value |-> <<Space, "PRJNA1", Space>>],
     [Namespace |-> "BioProject", Value |-> <<Space>>],
     [Namespace |-> "SRA", Value |-> <<"SRP1">>]}

SampleEntries ==
    {[Namespace |-> "BioSample", Value |-> <<"SAMN1">>],
     [Namespace |-> "BioProject", Value |-> <<"PRJNA2">>],
     [Namespace |-> "BioProject", Value |-> <<>>]}

ProjectAttributes ==
    {[Tag |-> "BioProject", Value |-> <<"PRJNA3">>],
     [Tag |-> "bioproject", Value |-> <<>>]}

SubmitterAttributes ==
    {[Tag |-> "submitter", Value |-> <<"Lab", Space, "A">>],
     [Tag |-> "SUBMITTER", Value |-> <<>>],
     [Tag |-> "submitted_by", Value |-> <<"Lab", Space, "B">>],
     [Tag |-> "submitted_by", Value |-> <<>>],
     [Tag |-> "Center_Name", Value |-> <<"Lab", Space, "C">>]}

SampleMetadata ==
    <<[Tag |-> "collection_date", Value |-> <<"2024-01-01">>],
      [Tag |-> "geo_loc_name", Value |-> <<"USA">>],
      [Tag |-> "ww_population", Value |-> <<"1000">>]>>

RunEntries ==
    {Run(<<"SRR1">>, <<>>, <<>>, <<>>),
     Run(<<"SRR2">>, <<"10">>, <<"2024-02-01">>, <<>>),
     Run(<<"SRR3">>, <<"20">>, <<>>, <<"2024-03-01">>)}

Dates == {<<>>, <<"2024-01-15">>}

\* The package of the end-to-end example.
ExamplePackage ==
    Package(<<[Namespace |-> "BioProject", Value |-> <<"PRJNA000">>]>>,
            <<[Namespace |-> "BioSample", Value |-> <<"SAMN000">>]>>,
            <<[Tag |-> "collection_date", Value |-> <<"2024-01-01">>]>>,
            <<"ACME", Space, "Lab">>,
            <<Run(<<"SRR000001">>, <<>>, <<>>, <<>>)>>,
            <<>>, <<>>)

\* The packages the serializer is applied to: those that vary the sources of
\* BioProject, those that vary the sources of Submitter, those that vary the
\* runs and the dates, and the package of the example.
Packages ==
    {Package(study, idents, attrs, <<>>, <<Run(<<"SRR1">>, <<>>, <<>>, <<>>)>>, <<>>, <<>>) :
        study \in SeqsUpTo(StudyEntries, MaxEntries),
        idents \in SeqsUpTo(SampleEntries, MaxEntries),
        attrs \in SeqsUpTo(ProjectAttributes, MaxEntries)}
    \cup
    {Package(<<>>, <<>>, attrs, org, <<Run(<<"SRR1">>, <<>>, <<>>, <<>>)>>, <<>>, <<>>) :
        attrs \in SeqsUpTo(SubmitterAttributes, MaxEntries),
        org \in {<<>>, <<"ACME", Space, "Lab">>}}
    \cup
    {Package(<<>>, <<>>, attrs, <<>>, runs, rel, load) :
        attrs \in {<<>>, SampleMetadata},
        runs \in SeqsUpTo(RunEntries, MaxRuns),
        rel \in Dates,
        load \in Dates}
    \cup
    {ExamplePackage}

PkgInit ==
    /\ NoPipeline
    /\ ids = <<>>
    /\ size = 0
    /\ chunks = <<>>
    /\ pkg \in Packages
    /\ out = <<>>
    /\ fpc = "decode"

\* The decoder reaches the EXPERIMENT element (fetchBatch, line 213, calls
\* Experiment.UnmarshalXML).
PkgDecode ==
    /\ fpc = "decode"
    /\ pkg' = [pkg EXCEPT !.Experiment = UnmarshalXML(@)]
    /\ fpc' = "header"
    /\ UNCHANGED <<pipeVars, ids, size, chunks, out>>

\* tsv.WriteString of the header, line 376.
PkgHeader ==
    /\ fpc = "header"
    /\ out' = Append(out, HeaderLine)
    /\ fpc' = "write"
    /\ UNCHANGED <<pipeVars, ids, size, chunks, pkg>>

\* writePackage(pkg, tsv), line 380.
PkgWrite ==
    /\ fpc = "write"
    /\ out' = writePackage(pkg, out)
    /\ fpc' = "done"
    /\ UNCHANGED <<pipeVars, ids, size, chunks, pkg>>

PkgNext == PkgDecode \/ PkgHeader \/ PkgWrite

PkgSpec == PkgInit /\ [][PkgNext]_vars

\* The package has been written.
Written == fpc = "done"

\* The package as it was before Experiment.UnmarshalXML.
Undecoded(p) == [p EXCEPT !.Experiment.BioProject = <<>>]

\* The fields of a written line: what stands between its tabs, the newline
\* at its end left out.
RECURSIVE SplitAtTabs(_, _)
SplitAtTabs(str, field) ==
    IF str = <<>> THEN <<field>>
    ELSE IF Head(str) = Tab
         THEN <<field>> \o SplitAtTabs(Tail(str), <<>>)
         ELSE SplitAtTabs(Tail(str), Append(field, Head(str)))

Fields(line) == SplitAtTabs(SubSeq(line, 1, Len(line) - 1), <<>>)

\* The rows of the file: the fields of every line after the header.
Rows == [i \in 1 .. Len(out) - 1 |-> Fields(out[i + 1])]

\* The columns of a row.
ColRun == 1
ColBioProject == 2
ColBioSample == 3
ColSubmitter == 4
ColCollectionDate == 5
ColLocation == 6
ColPopulation == 7

\* The least index of list whose entry satisfies Test, 0 if there is none.
FirstIndex(list, Test(_)) ==
    LET matching == {i \in 1 .. Len(list) : Test(list[i])}
    IN  IF matching = {} THEN 0
        ELSE CHOOSE i \in matching : \A j \in matching : i <= j

\* The first non-empty string of a sequence of strings, empty if all are empty.
FirstNonEmpty(candidates) ==
    LET k == FirstIndex(candidates, LAMBDA c : c # <<>>)
    IN  IF k = 0 THEN <<>> ELSE candidates[k]

\* The three sources of BioProject: the external identifier of the experiment's
\* study whose namespace is "BioProject" (white space around it removed), the
\* identifier of the sample with that namespace, the attribute of the sample
\* named bioproject (in any letter case); each is empty when absent.
ExperimentBioProject(p) ==
    LET k == FirstIndex(p.Experiment.Study.ExternalIDs, LAMBDA x : x.Namespace = "BioProject")
    IN  IF k = 0 THEN <<>> ELSE TrimSpace(p.Experiment.Study.ExternalIDs[k].Value)

SampleIdentifier(p, ns) ==
    LET k == FirstIndex(p.Sample.Identifiers, LAMBDA x : x.Namespace = ns)
    IN  IF k = 0 THEN <<>> ELSE p.Sample.Identifiers[k].Value

SampleAttribute(p, name) ==
    LET k == FirstIndex(p.Sample.Attributes, LAMBDA x : ToLower(x.Tag) = name)
    IN  IF k = 0 THEN <<>> ELSE p.Sample.Attributes[k].Value

\* C13: the BioProject of every row is the first non-empty of the experiment's
\* BioProject identifier, the sample's BioProject identifier and the sample's
\* attribute bioproject, in this order.
BioProjectPrecedence ==
    Written =>
        \A i \in 1 .. Len(Rows) :
            Rows[i][ColBioProject] =
                FirstNonEmpty(<<ExperimentBioProject(pkg),
                                SampleIdentifier(pkg, "BioProject"),
                                SampleAttribute(pkg, "bioproject")>>)

\* The experiment's identifier, the sample's identifier and the sample's
\* attribute are all three non-empty and differ; the row has the experiment's.
BioProjectPrecedenceWitness ==
    /\ Written
    /\ Len(Rows) = 1
    /\ ExperimentBioProject(pkg) = <<"PRJNA1">>
    /\ SampleIdentifier(pkg, "BioProject") = <<"PRJNA2">>
    /\ SampleAttribute(pkg, "bioproject") = <<"PRJNA3">>
    /\ Rows[1][ColBioProject] = <<"PRJNA1">>

\* C14: the Submitter of every row is the first non-empty of the organization's
\* name and the sample's attributes submitter, submitted_by and center_name, in
\* this order; it is empty only when all four are empty or absent.
SubmitterPrecedence ==
    Written =>
        \A i \in 1 .. Len(Rows) :
            /\ Rows[i][ColSubmitter] =
                   FirstNonEmpty(<<pkg.Organization.Name,
                                   SampleAttribute(pkg, "submitter"),
                                   SampleAttribute(pkg, "submitted_by"),
                                   SampleAttribute(pkg, "center_name")>>)
            /\ Rows[i][ColSubmitter] = <<>> =>
                   /\ pkg.Organization.Name = <<>>
                   /\ SampleAttribute(pkg, "submitter") = <<>>
                   /\ SampleAttribute(pkg, "submitted_by") = <<>>
                   /\ SampleAttribute(pkg, "center_name") = <<>>

\* No organization name; the attributes submitter and submitted_by both have a
\* value; the row has the value of submitter.
SubmitterPrecedenceWitness ==
    /\ Written
    /\ Len(Rows) = 1
    /\ pkg.Organization.Name = <<>>
    /\ SampleAttribute(pkg, "submitter") = <<"Lab", Space, "A">>
    /\ SampleAttribute(pkg, "submitted_by") = <<"Lab", Space, "B">>
    /\ Rows[1][ColSubmitter] = <<"Lab", Space, "A">>

\* C15: a package of K runs gives K rows, the i-th row for the i-th run; the
\* rows have the same BioProject, BioSample, Submitter, CollectionDate,
\* Location and Population; this holds whatever metadata is missing.
RowPerRun ==
    Written =>
        /\ Len(Rows) = Len(pkg.RunSet.Runs)
        /\ \A i \in 1 .. Len(Rows) : Rows[i][ColRun] = pkg.RunSet.Runs[i].Accession
        /\ \A i, j \in 1 .. Len(Rows) :
               \A c \in ColBioProject .. ColPopulation : Rows[i][c] = Rows[j][c]

\* Two runs, the first without total_spots and dates, in a package without
\* identifiers, attributes, organization and dates: two rows.
RowPerRunWitness ==
    /\ Written
    /\ Len(pkg.RunSet.Runs) = 2
    /\ pkg.RunSet.Runs[1].TotalSpots = <<>>
    /\ pkg.RunSet.Runs[1].Accession # pkg.RunSet.Runs[2].Accession
    /\ pkg.Sample.Attributes = <<>>
    /\ pkg.ReleaseDate = <<>>
    /\ pkg.LoadDate = <<>>
    /\ Len(Rows) = 2

\* The first five fields of the example's line, with the tabs between them.
ExampleLineStart ==
    <<"SRR000001", Tab, "PRJNA000", Tab, "SAMN000", Tab, "ACME", Space, "Lab", Tab, "2024-01-01">>

\* C16 as claimed: for the package of the example the file is the header and
\* the line SRR000001, PRJNA000, SAMN000, ACME Lab, 2024-01-01 followed by
\* six tabs and a newline.
ExampleLineSixTabs ==
    (Written /\ Undecoded(pkg) = ExamplePackage) =>
        out = <<HeaderLine, ExampleLineStart \o <<Tab, Tab, Tab, Tab, Tab, Tab, Newline>> >>

\* C16 (amended): for the package of the example the file is the header and
\* the line SRR000001, PRJNA000, SAMN000, ACME Lab, 2024-01-01 followed by
\* five tabs (the ten columns have nine tabs) and a newline.
ExampleLineFiveTabs ==
    (Written /\ Undecoded(pkg) = ExamplePackage) =>
        /\ out = <<HeaderLine, ExampleLineStart \o <<Tab, Tab, Tab, Tab, Tab, Newline>> >>
        /\ Len(Fields(out[1])) = 10
        /\ Len(Rows[1]) = 10

\* The package of the example has been written.
ExampleLineFiveTabsWitness ==
    /\ Written
    /\ Undecoded(pkg) = ExamplePackage
    /\ Len(out) = 2

====
